---- MODULE Spec2Model ----
(***************************************************************************)
(* Model of src/server.js: the OpenAI-compatible proxy in front of NVIDIA  *)
(* NIM.  The file holds two iterations of the same service: the first      *)
(* (lines 1-389, "variant 1") and the second (lines 391-625, "variant 2"). *)
(* One POST /v1/chat/completions request is followed from the entry of the *)
(* handler to the end of its response, for either variant.                 *)
(*                                                                         *)
(* Text is a sequence of atoms.  Model identifiers are sequences of        *)
(* characters, so that includes() and toLowerCase() are computed.  The     *)
(* upstream SSE text is a sequence of atoms "data:", "\n", "[DONE]", "}"   *)
(* and one atom per JSON object (its text up to the closing brace), so     *)
(* that a chunk can end inside a line, inside a JSON text or between the   *)
(* two newlines of a delimiter.  One character of the text is two bytes    *)
(* long, and a chunk can end between them.                                 *)
(* Temperatures are in tenths (0.8 is 8, 2 is 20).  The thinking-mode      *)
(* directive of the upstream body is not part of the model.                *)
(*                                                                         *)
(* Spec follows one request.  SpecTwo follows the relays of two streaming  *)
(* requests in flight at once, whose events interleave in any order.       *)
(***************************************************************************)
EXTENDS Integers, Sequences, FiniteSets, TLC

VARIABLES
  variant,        \* 1: lines 1-389, 2: lines 391-625
  SHOW_REASONING, \* the reasoning-display toggle
  req,            \* req.body
  pc,             \* position of the async handler
  sent,           \* bodies posted to the upstream, in order
  res,            \* the JSON response given with res.status().json()
  out,            \* frames written with res.write(), in order
  ended,          \* number of res.end() calls
  buffer,         \* carry-over buffer of the stream handler
  reasoningOpen,  \* is a <think> wrapper open on the client stream
  text,           \* the SSE text the upstream stream carries
  pos,            \* how much of text has been delivered in 'data' events
  src,            \* state of the upstream call / response stream
  client,         \* "connected" or "gone"
  goneAt,         \* pc at which the client disconnected
  closeListener,  \* is a req 'close' listener registered
  nimResponse,    \* how the awaited upstream call settled
  streams,        \* two concurrent streaming requests: each one's relay
  closures,       \* the buffer and reasoningOpen bindings the handlers created
  alone           \* each of the two requests as if it ran alone

\* One request followed from the entry of the handler
single == <<req, pc, sent, res, out, ended, buffer, reasoningOpen, text, pos, src,
            client, goneAt, closeListener, nimResponse>>

\* Two streaming requests in flight at once
concurrent == <<streams, closures, alone>>

vars == <<variant, SHOW_REASONING, single, concurrent>>

----------------------------------------------------------------------------
(* JavaScript values *)

Undef == [t |-> "undefined", v |-> <<>>]

Null == [t |-> "null", v |-> <<>>]

Str(s) == [t |-> "string", v |-> s]

Num(n) == [t |-> "number", v |-> <<n>>]

Bool(b) == [t |-> "boolean", v |-> <<b>>]

Arr(s) == [t |-> "array", v |-> s]

Fn == [t |-> "function", v |-> <<>>]

IsString(x) == x.t = "string"

IsNumber(x) == x.t = "number"

NumVal(x) == x.v[1]

\* JavaScript truthiness, as used by !x, x || y and if (x)
Truthy(x) ==
  CASE x.t = "undefined" -> FALSE
    [] x.t = "null" -> FALSE
    [] x.t = "string" -> Len(x.v) > 0
    [] x.t = "number" -> x.v[1] # 0
    [] x.t = "boolean" -> x.v[1]
    [] OTHER -> TRUE

----------------------------------------------------------------------------
(* Text helpers *)

\* String.prototype.startsWith
StartsWith(s, p) == Len(s) >= Len(p) /\ SubSeq(s, 1, Len(p)) = p

\* String.prototype.includes
Includes(s, sub) ==
  \E i \in 1..(Len(s) - Len(sub) + 1) : SubSeq(s, i, i + Len(sub) - 1) = sub

UPPER ==
  <<"A","B","C","D","E","F","G","H","I","J","K","L","M",
    "N","O","P","Q","R","S","T","U","V","W","X","Y","Z">>

LOWER ==
  <<"a","b","c","d","e","f","g","h","i","j","k","l","m",
    "n","o","p","q","r","s","t","u","v","w","x","y","z">>

LowerChar(c) ==
  IF \E i \in 1..Len(UPPER) : UPPER[i] = c
  THEN LOWER[CHOOSE i \in 1..Len(UPPER) : UPPER[i] = c]
  ELSE c

\* String.prototype.toLowerCase
ToLowerCase(s) == [i \in 1..Len(s) |-> LowerChar(s[i])]

NL == "\n"

SP == " "

IsSpace(a) == a = NL \/ a = SP

RECURSIVE TrimStart(_)
TrimStart(s) ==
  IF s # <<>> /\ IsSpace(Head(s)) THEN TrimStart(Tail(s)) ELSE s

RECURSIVE TrimEnd(_)
TrimEnd(s) ==
  IF s # <<>> /\ IsSpace(s[Len(s)]) THEN TrimEnd(SubSeq(s, 1, Len(s) - 1)) ELSE s

\* String.prototype.trim
Trim(s) == TrimEnd(TrimStart(s))

\* s.split('\n'): the pieces between single newlines (always at least one piece)
RECURSIVE SplitLines(_, _, _)
SplitLines(s, cur, acc) ==
  IF s = <<>> THEN Append(acc, cur)
  ELSE IF Head(s) = NL THEN SplitLines(Tail(s), <<>>, Append(acc, cur))
  ELSE SplitLines(Tail(s), Append(cur, Head(s)), acc)

\* s.split('\n\n'): the pieces between blank-line delimiters, leftmost first
RECURSIVE SplitParts(_, _, _)
SplitParts(s, cur, acc) ==
  IF s = <<>> THEN Append(acc, cur)
  ELSE IF Len(s) >= 2 /\ s[1] = NL /\ s[2] = NL
       THEN SplitParts(SubSeq(s, 3, Len(s)), <<>>, Append(acc, cur))
  ELSE SplitParts(Tail(s), Append(cur, Head(s)), acc)

RECURSIVE Concat(_)
Concat(ss) == IF ss = <<>> THEN <<>> ELSE Head(ss) \o Concat(Tail(ss))

----------------------------------------------------------------------------
(* Model identifiers *)

K_gpt35 ==
  <<"g","p","t","-","3",".","5","-","t","u","r","b","o">>

K_gpt4 ==
  <<"g","p","t","-","4">>

K_gpt4turbo ==
  <<"g","p","t","-","4","-","t","u","r","b","o">>

K_gpt4o ==
  <<"g","p","t","-","4","o">>

K_claude3opus ==
  <<"c","l","a","u","d","e","-","3","-","o","p","u","s">>

K_claude3sonnet ==
  <<"c","l","a","u","d","e","-","3","-","s","o","n","n","e","t">>

K_geminipro ==
  <<"g","e","m","i","n","i","-","p","r","o">>

V_nemotron ==
  <<"n","v","i","d","i","a","/","l","l","a","m","a","-","3",".","1","-","n","e","m","o","t","r","o","n","-","u","l","t","r","a","-","2","5","3","b","-","v","1">>

V_qwen3coder ==
  <<"q","w","e","n","/","q","w","e","n","3","-","c","o","d","e","r","-","4","8","0","b","-","a","3","5","b","-","i","n","s","t","r","u","c","t">>

V_kimi ==
  <<"m","o","o","n","s","h","o","t","a","i","/","k","i","m","i","-","k","2","-","i","n","s","t","r","u","c","t","-","0","9","0","5">>

V_deepseek ==
  <<"d","e","e","p","s","e","e","k","-","a","i","/","d","e","e","p","s","e","e","k","-","v","3",".","1","-","t","e","r","m","i","n","u","s">>

V_gptoss120 ==
  <<"o","p","e","n","a","i","/","g","p","t","-","o","s","s","-","1","2","0","b">>

V_gptoss20 ==
  <<"o","p","e","n","a","i","/","g","p","t","-","o","s","s","-","2","0","b">>

V_qwen3next ==
  <<"q","w","e","n","/","q","w","e","n","3","-","n","e","x","t","-","8","0","b","-","a","3","b","-","t","h","i","n","k","i","n","g">>

LLAMA_405B ==
  <<"m","e","t","a","/","l","l","a","m","a","-","3",".","1","-","4","0","5","b","-","i","n","s","t","r","u","c","t">>

LLAMA_70B ==
  <<"m","e","t","a","/","l","l","a","m","a","-","3",".","1","-","7","0","b","-","i","n","s","t","r","u","c","t">>

DEFAULT_FALLBACK_MODEL == LLAMA_70B

MODEL_MAPPING ==
  (K_gpt35 :> V_nemotron) @@ (K_gpt4 :> V_qwen3coder) @@ (K_gpt4turbo :> V_kimi)
  @@ (K_gpt4o :> V_deepseek) @@ (K_claude3opus :> V_gptoss120)
  @@ (K_claude3sonnet :> V_gptoss20) @@ (K_geminipro :> V_qwen3next)

\* Property names every object literal inherits from Object.prototype: the
\* lookup MODEL_MAPPING[name] finds a (truthy) function under each of them.
ID_constructor ==
  <<"c","o","n","s","t","r","u","c","t","o","r">>

ID_toString ==
  <<"t","o","S","t","r","i","n","g">>

OBJECT_PROTOTYPE_KEYS == {ID_constructor, ID_toString}

\* MODEL_MAPPING[requested], a JavaScript value
MappingLookup(requested) ==
  IF requested \in DOMAIN MODEL_MAPPING THEN Str(MODEL_MAPPING[requested])
  ELSE IF requested \in OBJECT_PROTOTYPE_KEYS THEN Fn
  ELSE Undef

KW_gpt4 ==
  <<"g","p","t","-","4">>

KW_opus ==
  <<"o","p","u","s">>

KW_405b ==
  <<"4","0","5","b">>

KW_claude ==
  <<"c","l","a","u","d","e">>

KW_gemini ==
  <<"g","e","m","i","n","i">>

KW_70b ==
  <<"7","0","b">>

SLASH == <<"/">>

HYPHEN == <<"-">>

\* resolveNimModel with the pass-through tried before the explicit mapping
ResolvePassThroughFirst(requested) ==
  IF ~Truthy(requested) \/ ~IsString(requested) THEN Str(DEFAULT_FALLBACK_MODEL)
  ELSE IF Includes(requested.v, SLASH) \/ Includes(requested.v, HYPHEN) THEN requested
  ELSE IF Truthy(MappingLookup(requested.v)) THEN MappingLookup(requested.v)
  ELSE LET lower == ToLowerCase(requested.v) IN
    IF Includes(lower, KW_gpt4) \/ Includes(lower, KW_opus) \/ Includes(lower, KW_405b)
    THEN Str(LLAMA_405B)
    ELSE IF Includes(lower, KW_claude) \/ Includes(lower, KW_gemini) \/ Includes(lower, KW_70b)
    THEN Str(LLAMA_70B)
    ELSE Str(DEFAULT_FALLBACK_MODEL)

\* resolveNimModel with the keyword heuristic tried before the pass-through
ResolveHeuristicFirst(requested) ==
  IF ~Truthy(requested) \/ ~IsString(requested) THEN Str(DEFAULT_FALLBACK_MODEL)
  ELSE IF Truthy(MappingLookup(requested.v)) THEN MappingLookup(requested.v)
  ELSE LET lower == ToLowerCase(requested.v) IN
    IF Includes(lower, KW_gpt4) \/ Includes(lower, KW_opus) \/ Includes(lower, KW_405b)
    THEN Str(LLAMA_405B)
    ELSE IF Includes(lower, KW_claude) \/ Includes(lower, KW_gemini) \/ Includes(lower, KW_70b)
    THEN Str(LLAMA_70B)
    ELSE IF Includes(requested.v, SLASH) \/ Includes(requested.v, HYPHEN) THEN requested
    ELSE Str(DEFAULT_FALLBACK_MODEL)

\* resolveNimModel (the same in both variants)
resolveNimModel(requested) ==
  IF ~Truthy(requested) \/ ~IsString(requested) THEN Str(DEFAULT_FALLBACK_MODEL)
  ELSE IF Truthy(MappingLookup(requested.v)) THEN MappingLookup(requested.v)
  ELSE IF Includes(requested.v, SLASH) \/ Includes(requested.v, HYPHEN) THEN requested
  ELSE LET lower == ToLowerCase(requested.v) IN
    IF Includes(lower, KW_gpt4) \/ Includes(lower, KW_opus) \/ Includes(lower, KW_405b)
    THEN Str(LLAMA_405B)
    ELSE IF Includes(lower, KW_claude) \/ Includes(lower, KW_gemini) \/ Includes(lower, KW_70b)
    THEN Str(LLAMA_70B)
    ELSE Str(DEFAULT_FALLBACK_MODEL)

----------------------------------------------------------------------------
(* Request normalisation *)

TEMPERATURE_MIN == 0

TEMPERATURE_MAX == 20

MAX_TOKENS_MIN == 1

MAX_TOKENS_MAX == 9024

DEFAULT_TEMPERATURE_V1 == 8

DEFAULT_MAX_TOKENS_V1 == 9024

DEFAULT_TEMPERATURE_V2 == 6

DEFAULT_MAX_TOKENS_V2 == 1024

Min(a, b) == IF a < b THEN a ELSE b

Max(a, b) == IF a > b THEN a ELSE b

\* clamp (variant 2)
clamp(num, min, max) == Min(Max(num, min), max)

VALID_ROLES == {"system", "user", "assistant", "tool"}

\* A message of the request: obj is FALSE for an element that is no object
Msg(role, content) == [obj |-> TRUE, role |-> role, content |-> content]

NotAnObject == [obj |-> FALSE, role |-> "", content |-> Undef]

\* validateMessages (variant 2): TRUE when it returns an error text
validateMessages(messages) ==
  \/ messages.t # "array"
  \/ Len(messages.v) = 0
  \/ \E i \in 1..Len(messages.v) :
       \/ ~messages.v[i].obj
       \/ messages.v[i].role \notin VALID_ROLES
       \/ ~IsString(messages.v[i].content)

----------------------------------------------------------------------------
(* SSE text and JSON frames *)

DATA == "data:"

DONE == "[DONE]"

CLOSE_BRACE == "}"

\* The two bytes of a two-byte UTF-8 character, the character they decode to,
\* and the replacement character a lone byte decodes to
BYTE_1 == "0xC3"

BYTE_2 == "0xA9"

E_ACUTE == "U+00E9"

REPLACEMENT == "U+FFFD"

\* Buffer.prototype.toString of one chunk: every atom but the two bytes is ASCII
RECURSIVE toString(_)
toString(chunk) ==
  IF chunk = <<>> THEN <<>>
  ELSE IF chunk[1] = BYTE_1 /\ Len(chunk) >= 2 /\ chunk[2] = BYTE_2
  THEN <<E_ACUTE>> \o toString(SubSeq(chunk, 3, Len(chunk)))
  ELSE IF chunk[1] \in {BYTE_1, BYTE_2}
  THEN <<REPLACEMENT>> \o toString(Tail(chunk))
  ELSE <<chunk[1]>> \o toString(Tail(chunk))

\* '<think>\n' and '\n</think>\n\n' (variant 1), '<think>' and '</think>' (variant 2)
THINK_OPEN == <<"<think>\n">>

THINK_CLOSE == <<"\n</think>\n\n">>

THINK_OPEN_V2 == <<"<think>">>

THINK_CLOSE_V2 == <<"</think>">>

Delta(content, reasoning) ==
  [present |-> TRUE, content |-> content, reasoning_content |-> reasoning]

NoDelta == [present |-> FALSE, content |-> Undef, reasoning_content |-> Undef]

Choice(delta) == [delta |-> delta]

Json(model, choices) == [model |-> model, choices |-> choices]

\* The JSON texts the upstream sends: each is the atom followed by "}".
JSON_ATOMS == {"{r:A", "{r:B", "{c:C", "{r:E,c:F", "{r:'',c:''", "{choices:[]", "{choices:[{}]"}

\* The JSON text of a content delta whose content is the characters that follow
JSON_CONTENT == "{c:"

\* The choices of each JSON text
ChoicesOf(atom) ==
  CASE atom = "{r:A" -> <<Choice(Delta(Null, Str(<<"A">>)))>>
    [] atom = "{r:B" -> <<Choice(Delta(Undef, Str(<<"B">>)))>>
    [] atom = "{c:C" -> <<Choice(Delta(Str(<<"C">>), Null))>>
    [] atom = "{r:E,c:F" -> <<Choice(Delta(Str(<<"F">>), Str(<<"E">>)))>>
    [] atom = "{r:'',c:''" -> <<Choice(Delta(Str(<<>>), Str(<<>>)))>>
    [] atom = "{choices:[]" -> <<>>
    [] atom = "{choices:[{}]" -> <<Choice(NoDelta)>>

\* JSON.parse: ok is FALSE when it throws.  The upstream names the model it ran.
JSONparse(payload, upstreamModel) ==
  IF Len(payload) = 2 /\ payload[1] \in JSON_ATOMS /\ payload[2] = CLOSE_BRACE
  THEN [ok |-> TRUE, json |-> Json(upstreamModel, ChoicesOf(payload[1]))]
  ELSE IF /\ Len(payload) >= 2 /\ payload[1] = JSON_CONTENT
          /\ payload[Len(payload)] = CLOSE_BRACE
          /\ \A i \in 2..(Len(payload) - 1) : payload[i] \in {E_ACUTE, REPLACEMENT}
  THEN [ok |-> TRUE,
        json |-> Json(upstreamModel,
                   <<Choice(Delta(Str(SubSeq(payload, 2, Len(payload) - 1)), Null))>>)]
  ELSE [ok |-> FALSE, json |-> Json(Undef, <<>>)]

\* What res.write() is given: 'data: [DONE]\n\n', 'data: ' + JSON.stringify(json)
\* + '\n\n', or a raw line + '\n\n'
WriteDone == [kind |-> "done", json |-> Json(Undef, <<>>), raw |-> <<>>]

WriteJson(json) == [kind |-> "json", json |-> json, raw |-> <<>>]

WriteRaw(line) == [kind |-> "raw", json |-> Json(Undef, <<>>), raw |-> line]

\* typeof x === 'string' && x.length > 0
NonEmptyString(x) == IsString(x) /\ Len(x.v) > 0

\* x || '' for a text or absent x
OrEmpty(x) == IF Truthy(x) THEN x.v ELSE <<>>

----------------------------------------------------------------------------
(* Variant 1: the stream transcoder *)

\* transformStreamChunk
transformStreamChunk(chunk, requestedModel) ==
  IF chunk.choices = <<>> \/ ~chunk.choices[1].delta.present THEN chunk
  ELSE IF ~SHOW_REASONING
  THEN [chunk EXCEPT !.model = requestedModel,
                     !.choices[1].delta.reasoning_content = Undef]
  ELSE [chunk EXCEPT !.model = requestedModel]

\* Lines 230-257 with the wrapper never closed before content
WrapNeverCloses(delta, open) ==
  LET hasReasoning == NonEmptyString(delta.reasoning_content)
      hasContent == NonEmptyString(delta.content)
      r == IF hasReasoning
           THEN (IF ~open THEN THINK_OPEN ELSE <<>>) \o delta.reasoning_content.v
           ELSE <<>>
      c == IF hasContent THEN delta.content.v ELSE <<>>
  IN [delta |-> Delta(Str(r \o c), Undef), open |-> open \/ hasReasoning]

\* Lines 230-257 with the opening marker written before every reasoning fragment
WrapAlwaysOpens(delta, open) ==
  LET hasReasoning == NonEmptyString(delta.reasoning_content)
      hasContent == NonEmptyString(delta.content)
      open1 == open \/ hasReasoning
      r == IF hasReasoning THEN THINK_OPEN \o delta.reasoning_content.v ELSE <<>>
      c == IF hasContent
           THEN (IF open1 THEN THINK_CLOSE ELSE <<>>) \o delta.content.v
           ELSE <<>>
  IN [delta |-> Delta(Str(r \o c), Undef), open |-> open1 /\ ~hasContent]

\* Lines 230-257: the <think> wrapper of one delta, given the wrapper state
WrapDelta(delta, open) ==
  LET hasReasoning == NonEmptyString(delta.reasoning_content)
      hasContent == NonEmptyString(delta.content)
      open1 == open \/ hasReasoning
      r == IF hasReasoning
           THEN (IF ~open THEN THINK_OPEN ELSE <<>>) \o delta.reasoning_content.v
           ELSE <<>>
      c == IF hasContent
           THEN (IF open1 THEN THINK_CLOSE ELSE <<>>) \o delta.content.v
           ELSE <<>>
  IN [delta |-> Delta(Str(r \o c), Undef), open |-> open1 /\ ~hasContent]

\* Lines 213-269: one line of the 'data' handler; st is [out, open]
LineV1(st, line, model, upstreamModel) ==
  IF ~StartsWith(line, <<DATA>>) THEN st
  ELSE LET payload == Trim(Tail(line)) IN
    IF payload = <<DONE>> THEN [st EXCEPT !.out = Append(@, WriteDone)]
    ELSE LET parsed == JSONparse(payload, upstreamModel) IN
      IF ~parsed.ok THEN [st EXCEPT !.out = Append(@, WriteRaw(line))]
      ELSE LET transformed == transformStreamChunk(parsed.json, model)
               hasDelta == transformed.choices # <<>>
                           /\ transformed.choices[1].delta.present
           IN
        IF SHOW_REASONING /\ hasDelta
        THEN LET w == WrapDelta(transformed.choices[1].delta, st.open) IN
          [out |-> Append(st.out,
                     WriteJson([transformed EXCEPT !.choices[1].delta = w.delta])),
           open |-> w.open]
        ELSE IF hasDelta /\ ~SHOW_REASONING
        THEN [st EXCEPT !.out = Append(@,
                WriteJson([transformed EXCEPT
                            !.choices[1].delta.reasoning_content = Undef]))]
        ELSE [st EXCEPT !.out = Append(@, WriteJson(transformed))]

RECURSIVE LinesV1(_, _, _, _)
LinesV1(st, lines, model, upstreamModel) ==
  IF lines = <<>> THEN st
  ELSE LinesV1(LineV1(st, Head(lines), model, upstreamModel), Tail(lines),
               model, upstreamModel)

\* Lines 208-270: the 'data' handler; st is [buffer, out, open]
DataV1(st, chunk, model, upstreamModel) ==
  LET lines == SplitLines(st.buffer \o toString(chunk), <<>>, <<>>)
      done == LinesV1([out |-> st.out, open |-> st.open],
                      SubSeq(lines, 1, Len(lines) - 1), model, upstreamModel)
  IN [buffer |-> lines[Len(lines)], out |-> done.out, open |-> done.open]

\* Lines 272-290 without the test of reasoningOpen
ClosePacketAlways(open, model) ==
  IF SHOW_REASONING
  THEN <<WriteJson(Json(model, <<Choice(Delta(Str(THINK_CLOSE), Undef))>>))>>
  ELSE <<>>

\* Lines 272-288: the frames the 'end' handler writes
ClosePacket(open, model) ==
  IF SHOW_REASONING /\ open
  THEN <<WriteJson(Json(model, <<Choice(Delta(Str(THINK_CLOSE), Undef))>>))>>
  ELSE <<>>

----------------------------------------------------------------------------
(* Variant 2: the stream transcoder *)

\* Lines 562-576: one JSON event; thrown is TRUE when the try block throws
EventV2(event) ==
  IF event.choices = <<>> THEN [thrown |-> FALSE, json |-> event]
  ELSE LET delta == event.choices[1].delta IN
    IF ~delta.present THEN [thrown |-> TRUE, json |-> event]
    ELSE IF ~Truthy(delta.reasoning_content) THEN [thrown |-> FALSE, json |-> event]
    ELSE [thrown |-> FALSE,
          json |-> [event EXCEPT !.choices[1].delta =
            Delta(IF SHOW_REASONING
                  THEN Str(THINK_OPEN_V2 \o delta.reasoning_content.v
                           \o THINK_CLOSE_V2 \o OrEmpty(delta.content))
                  ELSE delta.content,
                  Undef)]]

\* Lines 552-577: the loop over the parts; it returns at a [DONE] part
RECURSIVE PartsV2(_, _, _)
PartsV2(outSoFar, parts, upstreamModel) ==
  IF parts = <<>> THEN outSoFar
  ELSE LET part == Head(parts) IN
    IF ~StartsWith(part, <<DATA>>) THEN PartsV2(outSoFar, Tail(parts), upstreamModel)
    ELSE LET json == Trim(Tail(part)) IN
      IF json = <<DONE>> THEN Append(outSoFar, WriteDone)
      ELSE LET parsed == JSONparse(json, upstreamModel) IN
        IF ~parsed.ok THEN PartsV2(outSoFar, Tail(parts), upstreamModel)
        ELSE LET ev == EventV2(parsed.json) IN
          IF ev.thrown THEN PartsV2(outSoFar, Tail(parts), upstreamModel)
          ELSE PartsV2(Append(outSoFar, WriteJson(ev.json)), Tail(parts), upstreamModel)

\* Lines 545-578: the 'data' handler; st is [buffer, out, open]
DataV2(st, chunk, upstreamModel) ==
  LET parts == SplitParts(st.buffer \o toString(chunk), <<>>, <<>>)
  IN [buffer |-> parts[Len(parts)],
      out |-> PartsV2(st.out, SubSeq(parts, 1, Len(parts) - 1), upstreamModel),
      open |-> st.open]

----------------------------------------------------------------------------
(* Inputs: requests, upstream SSE texts, upstream JSON bodies *)

MaxFrames == 3

MaxMixedFrames == 2

ID_custom7b ==
  <<"c","u","s","t","o","m","-","7","b">>

ID_claudeopus ==
  <<"c","l","a","u","d","e","-","o","p","u","s">>

ID_myopus ==
  <<"m","y","/","o","p","u","s">>

ID_Gemini ==
  <<"G","e","m","i","n","i">>

ID_opus ==
  <<"o","p","u","s">>

ID_octopus ==
  <<"o","c","t","o","p","u","s">>

ID_llama ==
  <<"l","l","a","m","a">>

ID_x405b ==
  <<"x","4","0","5","b">>

ID_GPT4 ==
  <<"G","P","T","-","4">>

ID_L70B ==
  <<"L","7","0","B">>

ModelIds ==
  DOMAIN MODEL_MAPPING \cup OBJECT_PROTOTYPE_KEYS
  \cup {ID_custom7b, ID_claudeopus, ID_myopus, ID_Gemini, ID_opus, ID_octopus,
        ID_llama, ID_x405b, ID_GPT4, ID_L70B, KW_claude, LLAMA_405B, V_gptoss120}

ModelInputs == {Undef, Null, Num(4), Str(<<>>)} \cup {Str(id) : id \in ModelIds}

HI == <<"h","i">>

MessagesInputs ==
  { Undef, Str(HI), Arr(<<>>),
    Arr(<<Msg("user", Str(HI))>>),
    Arr(<<Msg("system", Str(HI)), Msg("tool", Str(<<>>))>>),
    Arr(<<Msg("user", Str(HI)), Msg("admin", Str(HI))>>),
    Arr(<<Msg("assistant", Null)>>),
    Arr(<<Msg("user", Str(HI)), NotAnObject>>) }

TemperatureInputs == {Undef, Str(HI), Num(-5), Num(0), Num(7), Num(20), Num(21), Num(50)}

MaxTokensInputs == {Undef, Str(HI), Num(-1), Num(0), Num(1), Num(500), Num(9024), Num(9025)}

BaseRequest ==
  [model |-> Str(K_gpt4), messages |-> Arr(<<Msg("user", Str(HI))>>),
   temperature |-> Undef, max_tokens |-> Undef, stream |-> Bool(FALSE)]

StreamRequests ==
  { [BaseRequest EXCEPT !.stream = Bool(TRUE), !.temperature = Num(50),
                        !.max_tokens = Num(0)] }

Requests ==
  {[BaseRequest EXCEPT !.model = m, !.stream = st] :
      m \in ModelInputs, st \in {Undef, Bool(FALSE)}}
  \cup {[BaseRequest EXCEPT !.messages = ms, !.model = m] :
          ms \in MessagesInputs, m \in {Undef, Str(K_gpt4)}}
  \cup {[BaseRequest EXCEPT !.temperature = t, !.max_tokens = k] :
          t \in TemperatureInputs, k \in MaxTokensInputs}
  \cup StreamRequests

RECURSIVE SeqsUpTo(_, _)
SeqsUpTo(S, n) ==
  IF n = 0 THEN {<<>>}
  ELSE LET shorter == SeqsUpTo(S, n - 1) IN
    shorter \cup {Append(s, x) : s \in shorter, x \in S}

\* Events of the upstream stream, each followed by a blank line
CoreEvents ==
  { <<DATA, "{r:A", CLOSE_BRACE>>, <<DATA, "{r:B", CLOSE_BRACE>>,
    <<DATA, "{c:C", CLOSE_BRACE>>, <<DATA, DONE>> }

OtherEvents ==
  { <<DATA, "{r:E,c:F", CLOSE_BRACE>>, <<DATA, "{r:'',c:''", CLOSE_BRACE>>,
    <<DATA, "{choices:[]", CLOSE_BRACE>>, <<DATA, "{choices:[{}]", CLOSE_BRACE>>,
    <<DATA, JSON_CONTENT, BYTE_1, BYTE_2, CLOSE_BRACE>>,
    <<DATA, "{c:C">>, <<": ping">> }

Framed(events) == Concat([i \in 1..Len(events) |-> events[i] \o <<NL, NL>>])

\* The second reasoning fragment only matters after a first one
MixedEvents == (CoreEvents \ {<<DATA, "{r:B", CLOSE_BRACE>>}) \cup OtherEvents

Texts ==
  {Framed(es) : es \in SeqsUpTo(CoreEvents, MaxFrames)}
  \cup {Framed(es) : es \in SeqsUpTo(MixedEvents, MaxMixedFrames)}

\* Messages of a non-streaming upstream body
UpMessage(content, reasoning) ==
  [present |-> TRUE, content |-> content, reasoning_content |-> reasoning]

NoMessage == [present |-> FALSE, content |-> Undef, reasoning_content |-> Undef]

\* Non-streaming upstream bodies: hasChoices is FALSE when the key is absent
UpstreamBodies ==
  { [hasChoices |-> FALSE, choices |-> <<>>],
    [hasChoices |-> TRUE, choices |-> <<>>],
    [hasChoices |-> TRUE, choices |-> <<UpMessage(Str(<<"C">>), Undef)>>],
    [hasChoices |-> TRUE, choices |-> <<UpMessage(Str(<<"C">>), Str(<<"A">>))>>],
    [hasChoices |-> TRUE, choices |-> <<UpMessage(Null, Str(<<"A">>))>>],
    [hasChoices |-> TRUE, choices |-> <<UpMessage(Str(<<>>), Undef)>>],
    [hasChoices |-> TRUE, choices |-> <<NoMessage>>],
    [hasChoices |-> TRUE,
     choices |-> <<UpMessage(Str(<<"C">>), Undef), UpMessage(Str(<<"D">>), Str(<<"B">>))>>] }

----------------------------------------------------------------------------
(* The response *)

NoResponse == [status |-> 0, type |-> "", model |-> Undef, choices |-> <<>>]

ErrorResponse(status, type) ==
  [status |-> status, type |-> type, model |-> Undef, choices |-> <<>>]

Completion(model, choices) ==
  [status |-> 200, type |-> "chat.completion", model |-> model, choices |-> choices]

EventStream == [status |-> 200, type |-> "text/event-stream", model |-> Undef, choices |-> <<>>]

\* The message of a response choice: only role and content are set
OutMessage(content) == [content |-> content, reasoning_content |-> Undef]

\* mergeReasoningNonStream without the test of SHOW_REASONING
MergeAlwaysWraps(message) ==
  IF Truthy(message.reasoning_content)
  THEN OutMessage(Str(THINK_OPEN \o message.reasoning_content.v \o THINK_CLOSE
                      \o OrEmpty(message.content)))
  ELSE OutMessage(Str(OrEmpty(message.content)))

\* mergeReasoningNonStream (variant 1)
mergeReasoningNonStream(message) ==
  IF SHOW_REASONING /\ Truthy(message.reasoning_content)
  THEN OutMessage(Str(THINK_OPEN \o message.reasoning_content.v \o THINK_CLOSE
                      \o OrEmpty(message.content)))
  ELSE OutMessage(Str(OrEmpty(message.content)))

\* Lines 323-347 (variant 1): the non-streaming response
NonStreamV1(d, model) ==
  Completion(model, [i \in 1..Len(d.choices) |-> mergeReasoningNonStream(d.choices[i])])

\* Lines 593-611 (variant 2): the non-streaming response
NonStreamV2(d, model) ==
  IF Len(d.choices) = 0 \/ ~Truthy(d.choices[1].content)
  THEN ErrorResponse(500, "")
  ELSE Completion(model,
         <<OutMessage(
             IF SHOW_REASONING /\ Truthy(d.choices[1].reasoning_content)
             THEN Str(THINK_OPEN_V2 \o d.choices[1].reasoning_content.v
                      \o THINK_CLOSE_V2 \o d.choices[1].content.v)
             ELSE d.choices[1].content)>>)

----------------------------------------------------------------------------
(* The upstream request body *)

Body(model, messages, temperature, max_tokens, stream) ==
  [model |-> model, messages |-> messages, temperature |-> temperature,
   max_tokens |-> max_tokens, stream |-> stream]

\* Lines 172-180 (variant 1)
nimRequestBody(r) ==
  Body(resolveNimModel(r.model), r.messages,
       IF IsNumber(r.temperature) THEN NumVal(r.temperature) ELSE DEFAULT_TEMPERATURE_V1,
       IF IsNumber(r.max_tokens) THEN NumVal(r.max_tokens) ELSE DEFAULT_MAX_TOKENS_V1,
       Truthy(r.stream))

\* Lines 507-518 (variant 2)
bodyV2(r) ==
  Body(resolveNimModel(r.model), r.messages,
       clamp(IF IsNumber(r.temperature) THEN NumVal(r.temperature)
             ELSE DEFAULT_TEMPERATURE_V2, TEMPERATURE_MIN, TEMPERATURE_MAX),
       clamp(IF IsNumber(r.max_tokens) THEN NumVal(r.max_tokens)
             ELSE DEFAULT_MAX_TOKENS_V2, MAX_TOKENS_MIN, MAX_TOKENS_MAX),
       Truthy(r.stream))

\* Lines 150-168 (variant 1): is the request rejected with 400
RejectedV1(r) ==
  \/ ~Truthy(r.model) \/ ~IsString(r.model)
  \/ r.messages.t # "array"

\* Lines 502-505 (variant 2): is the request rejected with 400
RejectedV2(r) == validateMessages(r.messages)

----------------------------------------------------------------------------
(* How the awaited upstream call settles *)

NoData == [hasChoices |-> FALSE, choices |-> <<>>]

\* The call is still awaited (or was never issued)
Unsettled == [kind |-> "none", status |-> 0, code |-> "", data |-> NoData]

\* The promise resolves: validateStatus accepts every status below 500
Resolved(status, data) ==
  [kind |-> "resolved", status |-> status, code |-> "", data |-> data]

\* The promise rejects: with error.response (status >= 500), or without one
\* (status 0) and an error code: a timeout or an abort
Rejected(status, code) ==
  [kind |-> "rejected", status |-> status, code |-> code, data |-> NoData]

\* The rejections of a call nobody aborted
UpstreamFailures ==
  {Rejected(500, ""), Rejected(503, ""), Rejected(0, "ECONNABORTED")}

----------------------------------------------------------------------------
(* Two streaming requests in flight at once *)

MaxFramesTwo == 1

RequestIds == {1, 2}

\* The model each of the two requests asks for
RequestedModel(i) == IF i = 1 THEN Str(K_gpt4) ELSE Str(K_claude3opus)

TwoEvents == { <<DATA, "{r:A", CLOSE_BRACE>>, <<DATA, "{c:C", CLOSE_BRACE>> }

TextsTwo == {Framed(es) : es \in SeqsUpTo(TwoEvents, MaxFramesTwo)}

\* A request whose upstream call was issued and is awaited
NewStream ==
  [pc |-> "awaiting", text |-> <<>>, pos |-> 0, out |-> <<>>, ended |-> 0,
   src |-> "pending"]

\* let buffer = ''; let reasoningOpen = false;
NewClosure == [buffer |-> <<>>, reasoningOpen |-> FALSE]

AloneStart == [buffer |-> <<>>, out |-> <<>>, open |-> FALSE]

\* buffer and reasoningOpen declared once for the whole process
sharedClosure(i) == 1

\* buffer and reasoningOpen are declared with let inside the handler: every
\* invocation creates bindings of its own, which its stream handlers close over
closureOf(i) == i

----------------------------------------------------------------------------
(* The state machine *)

Init ==
  /\ variant \in {1, 2}
  /\ SHOW_REASONING \in (IF variant = 1 THEN BOOLEAN ELSE {FALSE})
  /\ req \in Requests
  /\ pc = "start"
  /\ sent = <<>>
  /\ res = NoResponse
  /\ out = <<>>
  /\ ended = 0
  /\ buffer = <<>>
  /\ reasoningOpen = FALSE
  /\ text = <<>>
  /\ pos = 0
  /\ src = "idle"
  /\ client = "connected"
  /\ goneAt = "none"
  /\ closeListener = FALSE
  /\ nimResponse = Unsettled
  /\ streams = [i \in RequestIds |-> NewStream]
  /\ closures = [i \in RequestIds |-> NewClosure]
  /\ alone = [i \in RequestIds |-> AloneStart]

\* The handler from its entry to the first await or return
PostChatCompletions ==
  /\ pc = "start"
  /\ IF (variant = 1 /\ RejectedV1(req)) \/ (variant = 2 /\ RejectedV2(req))
     THEN /\ res' = ErrorResponse(400, "invalid_request_error")
          /\ pc' = "done"
          /\ UNCHANGED <<sent, src, closeListener>>
     ELSE /\ sent' = Append(sent, IF variant = 1 THEN nimRequestBody(req) ELSE bodyV2(req))
          /\ pc' = "awaiting"
          /\ src' = "pending"
          /\ closeListener' = (variant = 2 /\ Truthy(req.stream))
          /\ UNCHANGED res
  /\ UNCHANGED concurrent
  /\ UNCHANGED <<variant, SHOW_REASONING, req, nimResponse, out, ended, buffer, reasoningOpen,
                 text, pos, client, goneAt>>

\* The awaited call rejects: upstream status >= 500, no response at all (timeout,
\* network failure) or the call was aborted.  The catch block.
AwaitRejects ==
  /\ pc = "awaiting"
  /\ src \in {"pending", "aborted"}
  /\ \E e \in (IF src = "aborted" THEN {Rejected(0, "ERR_CANCELED")}
               ELSE UpstreamFailures) :
       /\ nimResponse' = e
       /\ res' = ErrorResponse(IF e.status = 0 THEN 500 ELSE e.status, "proxy_error")
  /\ pc' = "done"
  /\ src' = "failed"
  /\ UNCHANGED concurrent
  /\ UNCHANGED <<variant, SHOW_REASONING, req, sent, out, ended, buffer, reasoningOpen,
                 text, pos, client, goneAt, closeListener>>

\* The awaited call resolves with a 4xx status
AwaitResolves4xx ==
  /\ pc = "awaiting"
  /\ src = "pending"
  /\ \E status \in {400, 429} :
       /\ nimResponse' = Resolved(status, NoData)
       /\ res' = IF variant = 1 THEN ErrorResponse(status, "nim_error")
                 ELSE ErrorResponse(502, "")
  /\ pc' = "done"
  /\ src' = "failed"
  /\ UNCHANGED concurrent
  /\ UNCHANGED <<variant, SHOW_REASONING, req, sent, out, ended, buffer, reasoningOpen,
                 text, pos, client, goneAt, closeListener>>

\* The awaited call of a non-streaming request resolves with status 200
AwaitResolvesJson ==
  /\ pc = "awaiting"
  /\ src = "pending"
  /\ ~sent[1].stream
  /\ \E d \in UpstreamBodies :
       /\ nimResponse' = Resolved(200, d)
       /\ res' = IF variant = 1 THEN NonStreamV1(d, req.model)
                 ELSE NonStreamV2(d, req.model)
  /\ pc' = "done"
  /\ src' = "ended"
  /\ UNCHANGED concurrent
  /\ UNCHANGED <<variant, SHOW_REASONING, req, sent, out, ended, buffer, reasoningOpen,
                 text, pos, client, goneAt, closeListener>>

\* The awaited call of a streaming request resolves with status 200: the headers
\* are set and the stream handlers registered (variant 1: the close listener too)
AwaitResolvesStream ==
  /\ pc = "awaiting"
  /\ src = "pending"
  /\ sent[1].stream
  /\ text' \in Texts
  /\ nimResponse' = Resolved(200, NoData)
  /\ res' = EventStream
  /\ pc' = "relaying"
  /\ src' = "open"
  /\ buffer' = <<>>
  /\ reasoningOpen' = FALSE
  /\ closeListener' = TRUE
  /\ UNCHANGED concurrent
  /\ UNCHANGED <<variant, SHOW_REASONING, req, sent, out, ended, pos, client, goneAt>>

\* A 'data' event carrying the next n bytes of the upstream text
OnData ==
  /\ pc = "relaying"
  /\ src = "open"
  /\ \E n \in 1..(Len(text) - pos) :
       LET chunk == SubSeq(text, pos + 1, pos + n)
           st == [buffer |-> buffer, out |-> out, open |-> reasoningOpen]
           nx == IF variant = 1 THEN DataV1(st, chunk, req.model, sent[1].model)
                 ELSE DataV2(st, chunk, sent[1].model)
       IN /\ buffer' = nx.buffer
          /\ out' = nx.out
          /\ reasoningOpen' = nx.open
          /\ pos' = pos + n
  /\ UNCHANGED concurrent
  /\ UNCHANGED <<variant, SHOW_REASONING, req, nimResponse, pc, sent, res, ended, text, src,
                 client, goneAt, closeListener>>

\* The 'end' event, once the whole text was delivered
OnEnd ==
  /\ pc = "relaying"
  /\ src = "open"
  /\ pos = Len(text)
  /\ out' = out \o (IF variant = 1 THEN ClosePacket(reasoningOpen, req.model) ELSE <<>>)
  /\ ended' = ended + 1
  /\ src' = "ended"
  /\ pc' = "done"
  /\ UNCHANGED concurrent
  /\ UNCHANGED <<variant, SHOW_REASONING, req, nimResponse, sent, res, buffer, reasoningOpen, text,
                 pos, client, goneAt, closeListener>>

\* The 'error' handler writing the closing frame as the 'end' handler does
OnErrorClosesWrapper ==
  /\ pc = "relaying"
  /\ src = "open"
  /\ out' = out \o (IF variant = 1 THEN ClosePacket(reasoningOpen, req.model) ELSE <<>>)
  /\ ended' = ended + 1
  /\ src' = "errored"
  /\ pc' = "done"
  /\ UNCHANGED concurrent
  /\ UNCHANGED <<variant, SHOW_REASONING, req, nimResponse, sent, res, buffer,
                 reasoningOpen, text, pos, client, goneAt, closeListener>>

\* The 'error' event of the upstream stream, at any point of the relay
OnError ==
  /\ pc = "relaying"
  /\ src = "open"
  /\ ended' = ended + 1
  /\ src' = "errored"
  /\ pc' = "done"
  /\ UNCHANGED concurrent
  /\ UNCHANGED <<variant, SHOW_REASONING, req, nimResponse, sent, res, out, buffer, reasoningOpen,
                 text, pos, client, goneAt, closeListener>>

\* The close listener that leaves the upstream call running
leaveRunning(at) == IF at = "awaiting" THEN "pending" ELSE "open"

\* Lines 297-301 and 526-531: what the req 'close' listener does to the upstream
\* call.  Variant 1 destroys the response stream; variant 2 aborts the call, which
\* rejects it while it is awaited and destroys the response stream afterwards.
closeListenerEffect(at) == IF at = "awaiting" THEN "aborted" ELSE "destroyed"

\* The client disconnects: req emits 'close' and a registered listener runs.
\* After an abort during the relay (variant 2) the HTTP client may emit 'error'
\* on the response stream before destroying it: that handler ends the response.
ClientDisconnect ==
  /\ client = "connected"
  /\ pc \in {"awaiting", "relaying"}
  /\ client' = "gone"
  /\ goneAt' = pc
  /\ IF ~closeListener
     THEN UNCHANGED <<src, ended, pc>>
     ELSE /\ src' = closeListenerEffect(pc)
          /\ \/ UNCHANGED <<ended, pc>>
             \/ variant = 2 /\ pc = "relaying" /\ ended' = ended + 1 /\ pc' = "done"
  /\ UNCHANGED concurrent
  /\ UNCHANGED <<variant, SHOW_REASONING, req, nimResponse, sent, res, out, buffer, reasoningOpen,
                 text, pos, closeListener>>

Next ==
  \/ PostChatCompletions
  \/ AwaitRejects
  \/ AwaitResolves4xx
  \/ AwaitResolvesJson
  \/ AwaitResolvesStream
  \/ OnData
  \/ OnEnd
  \/ OnError
  \/ ClientDisconnect

Spec == Init /\ [][Next]_vars

----------------------------------------------------------------------------
(* The state machine of two concurrent streaming requests.  Each event of the   *)
(* upstream streams and of the clients is one step: the handlers run to         *)
(* completion on the single thread of the event loop, in any order.             *)

\* One 'data' event of a relay, on the transcoder state st
Data(st, chunk, i) ==
  IF variant = 1
  THEN DataV1(st, chunk, RequestedModel(i), resolveNimModel(RequestedModel(i)))
  ELSE DataV2(st, chunk, resolveNimModel(RequestedModel(i)))

\* The frames the 'end' handler writes
EndFrames(open, i) ==
  IF variant = 1 THEN ClosePacket(open, RequestedModel(i)) ELSE <<>>

\* The awaited call of request i resolves: its handler declares buffer and
\* reasoningOpen and registers the stream handlers
TwoResolves(i) ==
  /\ streams[i].pc = "awaiting"
  /\ \E t \in TextsTwo :
       streams' = [streams EXCEPT ![i] =
                     [@ EXCEPT !.pc = "relaying", !.text = t, !.src = "open"]]
  /\ closures' = [closures EXCEPT ![closureOf(i)] = NewClosure]
  /\ alone' = [alone EXCEPT ![i] = AloneStart]
  /\ UNCHANGED <<variant, SHOW_REASONING, single>>

\* A 'data' event of request i's upstream stream
TwoOnData(i) ==
  /\ streams[i].pc = "relaying"
  /\ streams[i].src = "open"
  /\ \E n \in 1..(Len(streams[i].text) - streams[i].pos) :
       LET chunk == SubSeq(streams[i].text, streams[i].pos + 1, streams[i].pos + n)
           mine == closures[closureOf(i)]
           nx == Data([buffer |-> mine.buffer, out |-> streams[i].out,
                       open |-> mine.reasoningOpen], chunk, i)
       IN /\ closures' = [closures EXCEPT ![closureOf(i)] =
                            [buffer |-> nx.buffer, reasoningOpen |-> nx.open]]
          /\ streams' = [streams EXCEPT ![i] =
                           [@ EXCEPT !.out = nx.out, !.pos = @ + n]]
          /\ alone' = [alone EXCEPT ![i] = Data(@, chunk, i)]
  /\ UNCHANGED <<variant, SHOW_REASONING, single>>

\* The 'end' event of request i's upstream stream
TwoOnEnd(i) ==
  /\ streams[i].pc = "relaying"
  /\ streams[i].src = "open"
  /\ streams[i].pos = Len(streams[i].text)
  /\ streams' = [streams EXCEPT ![i] =
        [@ EXCEPT !.out = @ \o EndFrames(closures[closureOf(i)].reasoningOpen, i),
                  !.ended = @ + 1, !.src = "ended", !.pc = "done"]]
  /\ alone' = [alone EXCEPT ![i] = [@ EXCEPT !.out = @ \o EndFrames(alone[i].open, i)]]
  /\ UNCHANGED <<variant, SHOW_REASONING, single, closures>>

\* The 'error' event of request i's upstream stream
TwoOnError(i) ==
  /\ streams[i].pc = "relaying"
  /\ streams[i].src = "open"
  /\ streams' = [streams EXCEPT ![i] =
        [@ EXCEPT !.ended = @ + 1, !.src = "errored", !.pc = "done"]]
  /\ UNCHANGED <<variant, SHOW_REASONING, single, closures, alone>>

\* The 'close' event of request i: its client disconnects during the relay
TwoOnClose(i) ==
  /\ streams[i].pc = "relaying"
  /\ streams[i].src = "open"
  /\ streams' = [streams EXCEPT ![i] = [@ EXCEPT !.src = closeListenerEffect("relaying")]]
  /\ UNCHANGED <<variant, SHOW_REASONING, single, closures, alone>>

InitTwo == Init /\ req \in StreamRequests

NextTwo ==
  \E i \in RequestIds :
    \/ TwoResolves(i)
    \/ TwoOnData(i)
    \/ TwoOnEnd(i)
    \/ TwoOnError(i)
    \/ TwoOnClose(i)

SpecTwo == InitTwo /\ [][NextTwo]_vars

----------------------------------------------------------------------------
(* Properties *)

JsonFrames == {i \in 1..Len(out) : out[i].kind = "json"}

\* The only frame the 'end' handler synthesizes: a delta with the closing marker
IsClosePacket(f) ==
  f = WriteJson(Json(req.model, <<Choice(Delta(Str(THINK_CLOSE), Undef))>>))

ClosePackets == {i \in 1..Len(out) : IsClosePacket(out[i])}

\* The transcoder state after the text t has arrived in a single chunk
OneChunk(t) ==
  LET st0 == [buffer |-> <<>>, out |-> <<>>, open |-> FALSE] IN
    IF variant = 1 THEN DataV1(st0, t, req.model, sent[1].model)
    ELSE DataV2(st0, t, sent[1].model)

\* The events of an upstream text whose events are all complete
EventsOf(t) ==
  LET parts == SplitParts(t, <<>>, <<>>) IN SubSeq(parts, 1, Len(parts) - 1)

IsReasoningEvent(e) == e \in {<<DATA, "{r:A", CLOSE_BRACE>>, <<DATA, "{r:B", CLOSE_BRACE>>}

IsContentEvent(e) == e = <<DATA, "{c:C", CLOSE_BRACE>>

\* One or more reasoning fragments followed by one or more content fragments
ReasoningThenContent(es) ==
  \E k \in 1..(Len(es) - 1) :
    /\ \A i \in 1..k : IsReasoningEvent(es[i])
    /\ \A i \in (k + 1)..Len(es) : IsContentEvent(es[i])

\* The fragments of the upstream events, in order
ReasoningOf(es) ==
  Concat([i \in 1..Len(es) |-> OrEmpty(ChoicesOf(es[i][2])[1].delta.reasoning_content)])

ContentOf(es) ==
  Concat([i \in 1..Len(es) |-> OrEmpty(ChoicesOf(es[i][2])[1].delta.content)])

\* The concatenation of the content fields of the frames sent to the client
VisibleText ==
  Concat([i \in 1..Len(out) |->
    IF out[i].kind = "json" /\ out[i].json.choices # <<>>
       /\ out[i].json.choices[1].delta.present
    THEN OrEmpty(out[i].json.choices[1].delta.content)
    ELSE <<>>])

Occurrences(s, a) == Cardinality({i \in 1..Len(s) : s[i] = a})

StreamStarted == res = EventStream

\* C1: every successful response carries the requested model: the non-streaming
\* body and every JSON frame written on the stream, whatever its shape.
C1_ModelAlwaysRequested ==
  /\ (res.status = 200 /\ res.type = "chat.completion") => res.model = req.model
  /\ \A i \in JsonFrames : out[i].json.model = req.model

\* C2: chunk-boundary independence: whatever the cuts, the frames written so far,
\* the carry-over buffer and reasoningOpen are those of the same text arriving in
\* one chunk.
C2_ChunkBoundaryIndependence ==
  (StreamStarted /\ pc = "relaying") =>
    LET whole == OneChunk(SubSeq(text, 1, pos)) IN
      /\ out = whole.out
      /\ reasoningOpen = whole.open
      /\ buffer = whole.buffer

\* The upstream sends [DONE] once, as its last event
DoneEndsUpstream(t) ==
  LET es == EventsOf(t) IN
    /\ es # <<>>
    /\ \A i \in 1..Len(es) : (es[i] = <<DATA, DONE>>) <=> (i = Len(es))

\* C3: when the upstream ends its stream with a [DONE] frame, that frame is the
\* last frame the client receives: nothing is written after it, neither a
\* transformed or raw frame nor the synthesized closing frame.
C3_DoneIsLast ==
  (StreamStarted /\ DoneEndsUpstream(text)) =>
    \A i \in 1..Len(out) : out[i].kind = "done" => i = Len(out)

C5_NeverUnterminated ==
  (SHOW_REASONING /\ StreamStarted /\ ended > 0) =>
    IF reasoningOpen
    THEN Cardinality(ClosePackets) = 1 /\ Len(out) \in ClosePackets
    ELSE ClosePackets = {}

\* C5 amended: when the upstream stream ends ('end'), an open wrapper is closed by
\* exactly one final closing frame and none is written when it is closed; when the
\* stream is ended by an upstream 'error', no closing frame is written.
C5_ClosedOnEnd ==
  (SHOW_REASONING /\ StreamStarted) =>
    /\ src = "ended" =>
         IF reasoningOpen
         THEN Cardinality(ClosePackets) = 1 /\ Len(out) \in ClosePackets
         ELSE ClosePackets = {}
    /\ src = "errored" => ClosePackets = {}

\* C5 witness: the stream ended with the wrapper open and the closing frame last
C5_Witness ==
  /\ SHOW_REASONING /\ src = "ended" /\ reasoningOpen
  /\ Len(out) \in ClosePackets

\* C6: once the client has disconnected during the relay, the upstream stream is
\* destroyed, no further chunk is processed and no further frame is written.
C6_NoTrafficAfterDisconnect ==
  /\ []((client = "gone" /\ goneAt = "relaying") => src = "destroyed")
  /\ [][(client = "gone" /\ goneAt = "relaying") =>
          (out' = out /\ pos' = pos /\ buffer' = buffer)]_vars

\* C6 witness: the client left in the middle of a stream that had more to deliver
C6_Witness ==
  /\ client = "gone" /\ goneAt = "relaying"
  /\ 0 < pos /\ pos < Len(text) /\ Len(out) > 0

\* The requests C7 is about
ClaimInvalidMessages(ms) ==
  \/ ms.t # "array"
  \/ ms.v = <<>>
  \/ \E i \in 1..Len(ms.v) :
       ms.v[i].role \notin VALID_ROLES \/ ms.v[i].content.t # "string"

\* C7: a request with absent, non-sequence, empty or ill-formed messages is
\* answered 400 invalid_request_error and no upstream call is issued.
C7_InvalidMessagesRejected ==
  (pc # "start" /\ ClaimInvalidMessages(req.messages)) =>
    /\ res = ErrorResponse(400, "invalid_request_error")
    /\ sent = <<>>

\* C8: every body sent upstream has temperature in [0, 2] and max_tokens in
\* [1, 9024].
C8_SentInRange ==
  \A i \in 1..Len(sent) :
    /\ TEMPERATURE_MIN <= sent[i].temperature /\ sent[i].temperature <= TEMPERATURE_MAX
    /\ MAX_TOKENS_MIN <= sent[i].max_tokens /\ sent[i].max_tokens <= MAX_TOKENS_MAX

\* C9: a requested identifier that is a key of the static mapping is resolved to
\* exactly its mapped value, before the pass-through and heuristic rules.
C9_MappedResolved ==
  (sent # <<>> /\ IsString(req.model) /\ req.model.v \in DOMAIN MODEL_MAPPING) =>
    sent[1].model = Str(MODEL_MAPPING[req.model.v])

\* C9 witness: claude-3-opus went upstream as openai/gpt-oss-120b
C9_Witness ==
  /\ sent # <<>>
  /\ req.model = Str(K_claude3opus)
  /\ sent[1].model = Str(V_gptoss120)

\* C10: an identifier that is no key of the mapping and contains - or / is sent
\* unchanged, also when it contains a heuristic keyword.
C10_PassThrough ==
  (sent # <<>> /\ IsString(req.model) /\ req.model.v \notin DOMAIN MODEL_MAPPING
   /\ (Includes(req.model.v, HYPHEN) \/ Includes(req.model.v, SLASH))) =>
    sent[1].model = req.model

\* C10 witness: claude-opus, with two heuristic keywords, went upstream unchanged
C10_Witness ==
  /\ sent # <<>>
  /\ req.model = Str(ID_claudeopus)
  /\ sent[1].model = Str(ID_claudeopus)

\* The upstream identifier the contract of resolve gives: the mapped value, the
\* identifier itself with - or /, the keyword target, else the default fallback
ContractTarget(requested) ==
  IF ~IsString(requested) THEN DEFAULT_FALLBACK_MODEL
  ELSE IF requested.v \in DOMAIN MODEL_MAPPING THEN MODEL_MAPPING[requested.v]
  ELSE IF Includes(requested.v, HYPHEN) \/ Includes(requested.v, SLASH) THEN requested.v
  ELSE LET lower == ToLowerCase(requested.v) IN
    IF Includes(lower, KW_gpt4) \/ Includes(lower, KW_opus) \/ Includes(lower, KW_405b)
    THEN LLAMA_405B
    ELSE IF Includes(lower, KW_claude) \/ Includes(lower, KW_gemini) \/ Includes(lower, KW_70b)
    THEN LLAMA_70B
    ELSE DEFAULT_FALLBACK_MODEL

\* C11: resolveNimModel always returns a text identifier: the default fallback for
\* an absent or non-text input, and for a text that is no key of the mapping and
\* has no - or /, the large target, the mid-size target or the default fallback
\* by the keywords of its lowercase form.
C11_ResolveTotal ==
  sent # <<>> =>
    /\ IsString(sent[1].model)
    /\ sent[1].model.v = ContractTarget(req.model)

\* The opening and closing markers of either variant
THINK_MARKERS ==
  {THINK_OPEN[1], THINK_CLOSE[1], THINK_OPEN_V2[1], THINK_CLOSE_V2[1]}

IsCompletion == res.status = 200 /\ res.type = "chat.completion"

\* C12: with reasoning display disabled, no choice of a non-streaming response
\* has a reasoning_content key, and no content holds a <think> or </think> marker,
\* whatever reasoning the upstream body carried.
C12_NoReasoningNonStream ==
  (~SHOW_REASONING /\ IsCompletion) =>
    \A i \in 1..Len(res.choices) :
      /\ res.choices[i].reasoning_content = Undef
      /\ IsString(res.choices[i].content)
      /\ \A k \in 1..Len(res.choices[i].content.v) :
           res.choices[i].content.v[k] \notin THINK_MARKERS

\* C12 witness: the upstream body had reasoning A and content C, the response
\* has content C alone
C12_Witness ==
  /\ ~SHOW_REASONING /\ IsCompletion
  /\ nimResponse.data.choices # <<>>
  /\ nimResponse.data.choices[1].reasoning_content = Str(<<"A">>)
  /\ res.choices = <<OutMessage(Str(<<"C">>))>>

\* C13: an upstream 4xx response is relayed with the same status; an upstream
\* status >= 500 or a transport failure (a call nobody aborted that got no
\* response) is answered 502, in streaming and non-streaming mode.
C13_StatusTranslated ==
  /\ (nimResponse.kind = "resolved" /\ nimResponse.status >= 400) =>
       res.status = nimResponse.status
  /\ (nimResponse.kind = "rejected" /\ nimResponse.code # "ERR_CANCELED") =>
       res.status = 502

\* The data: events of an upstream text (its bytes decoded), in order
DataEvents(t) == SelectSeq(EventsOf(toString(t)), LAMBDA e : StartsWith(e, <<DATA>>))

\* A data: event whose payload is not [DONE] and does not parse as JSON
FailsToParse(e) ==
  /\ Trim(Tail(e)) # <<DONE>>
  /\ ~JSONparse(Trim(Tail(e)), Undef).ok

RawFramesOf(line) == {k \in 1..Len(out) : out[k] = WriteRaw(line)}

\* C14: once the upstream stream has ended, every data: event whose payload failed
\* to parse has been forwarded unchanged as a frame of its own, once for each time
\* the upstream sent it.
C14_ParseFailureForwarded ==
  (StreamStarted /\ src = "ended") =>
    LET es == DataEvents(text) IN
      \A i \in 1..Len(es) :
        FailsToParse(es[i]) =>
          Cardinality(RawFramesOf(es[i])) = Cardinality({j \in 1..Len(es) : es[j] = es[i]})

\* C15: a request whose model is absent or not a text is answered 400
\* invalid_request_error and no upstream call is issued.
C15_InvalidModelRejected ==
  (pc # "start" /\ ~IsString(req.model)) =>
    /\ res = ErrorResponse(400, "invalid_request_error")
    /\ sent = <<>>

\* The upstream success bodies C16 is about: choices missing or empty, or a first
\* choice without message content
LacksContent(d) ==
  \/ ~d.hasChoices
  \/ d.choices = <<>>
  \/ ~d.choices[1].present
  \/ d.choices[1].content \in {Undef, Null}

\* C16: in non-streaming mode an upstream success body without choices or without
\* content in its first choice is answered 500, never with a 200 completion.
C16_MissingContentIs500 ==
  (~Truthy(req.stream) /\ nimResponse.kind = "resolved"
   /\ nimResponse.status = 200 /\ LacksContent(nimResponse.data)) =>
    res.status = 500

\* The 'error' handler has run: after an 'error' event of the upstream stream, or
\* after the 'error' an aborted call emits on it
ErrorHandled == src = "errored" \/ (src = "destroyed" /\ ended > 0)

\* C17: the step that handles an upstream 'error' event writes no frame and ends
\* the response; afterwards no frame is written and the response is not ended
\* again, so it is ended exactly once.
C17_ErrorEndsStream ==
  /\ [](ErrorHandled => ended = 1)
  /\ [][(~ErrorHandled /\ ErrorHandled') => (out' = out /\ ended' = ended + 1)]_vars
  /\ [][ErrorHandled => (out' = out /\ ended' = ended)]_vars

\* C17 witness: the upstream failed in the middle of a stream, after frames were
\* written and with the <think> wrapper open
C17_Witness ==
  /\ src = "errored" /\ ended = 1
  /\ SHOW_REASONING /\ reasoningOpen
  /\ Len(out) > 0 /\ pos < Len(text)

\* The JSON objects of the upstream frames of a text
UpstreamJsons(t) ==
  LET es == DataEvents(t) IN
    {JSONparse(Trim(Tail(es[i])), sent[1].model).json :
       i \in {k \in 1..Len(es) : JSONparse(Trim(Tail(es[k])), sent[1].model).ok}}

\* An upstream frame with model overwritten and the reasoning field of its
\* first choice's delta removed
WithoutReasoning(j) ==
  IF j.choices # <<>> /\ j.choices[1].delta.present
  THEN [j EXCEPT !.model = req.model, !.choices[1].delta.reasoning_content = Undef]
  ELSE [j EXCEPT !.model = req.model]

\* C18: with reasoning display disabled, every JSON frame written on the stream is
\* an upstream frame with model overwritten by the requested identifier and the
\* reasoning field of its first choice's delta removed, and nothing else changed.
C18_DisabledFramesUnchanged ==
  (~SHOW_REASONING /\ StreamStarted) =>
    \A i \in JsonFrames :
      out[i].json \in {WithoutReasoning(j) : j \in UpstreamJsons(text)}

\* C19: once the client of a streaming request has disconnected, while the
\* response headers are awaited or during the relay, the upstream call is
\* cancelled: it is neither left pending or open nor does it run to its end.
C19_DisconnectCancelsUpstream ==
  (client = "gone" /\ Truthy(req.stream)) => src \notin {"pending", "open", "ended"}

\* C20: whatever the interleaving of the events of two concurrent streaming
\* requests, each request's frames, carry-over buffer and reasoningOpen are those
\* of the same request running alone (a new request starting with an empty buffer
\* and a closed wrapper), and a step changes the buffer and reasoningOpen of one
\* request only when it is an event of that request.
C20_StatePerRequest ==
  /\ [](\A i \in RequestIds :
         streams[i].pc # "awaiting" =>
           /\ streams[i].out = alone[i].out
           /\ closures[closureOf(i)].buffer = alone[i].buffer
           /\ closures[closureOf(i)].reasoningOpen = alone[i].open)
  /\ [][\A i \in RequestIds :
         closures'[i] # closures[i] =>
           /\ streams'[i] # streams[i]
           /\ \A j \in RequestIds \ {i} : streams'[j] = streams[j]]_vars

\* C20 witness: both relays are under way; request 1 has its <think> wrapper open
\* while request 2, its wrapper closed, holds a partial frame in its buffer
C20_Witness ==
  /\ SHOW_REASONING
  /\ streams[1].src = "open" /\ streams[2].src = "open"
  /\ closures[1].reasoningOpen /\ Len(streams[1].out) > 0
  /\ ~closures[2].reasoningOpen /\ closures[2].buffer # <<>>

\* The opening and closing markers written on the stream so far
Opens == Occurrences(VisibleText, THINK_OPEN[1])

Closes == Occurrences(VisibleText, THINK_CLOSE[1])

\* C21: on a stream with reasoning display enabled, the closing markers written
\* never exceed the opening markers and fall short of them by at most one; after
\* every frame processed during the relay reasoningOpen is true exactly when one
\* more opening than closing marker was written, and once the 'end' handler has
\* run every wrapper is closed.
C21_OpenMatchesMarkers ==
  (SHOW_REASONING /\ StreamStarted) =>
    /\ Opens - Closes \in {0, 1}
    /\ src # "ended" => (reasoningOpen <=> Opens - Closes = 1)
    /\ src = "ended" => Opens = Closes

\* C21 witness: a wrapper was opened, closed by content and opened again, and the
\* relay is under way with the second wrapper open
C21_Witness ==
  /\ SHOW_REASONING /\ src = "open"
  /\ reasoningOpen
  /\ Opens = 2 /\ Closes = 1

====
